---- MODULE Spec2Model ----
(***************************************************************************)
(* Model of the XiaoHongShu API client: the TokenManager (token requests   *)
(* and the X-S-Common cache), BaseAPI._make_request, the paginated         *)
(* operations of the api package and the XHSClient facade.  The token      *)
(* server and the platform are the environment: their answers are drawn    *)
(* from small sets.                                                        *)
(***************************************************************************)
EXTENDS Integers, Sequences, FiniteSets, TLC

\* ---------------------------------------------------------------- bounds
MaxTime == 1          \* the clock (milliseconds) runs over 0..MaxTime
MaxValidity == 1      \* the server's expires_at is at most now + MaxValidity
MaxNum == 2           \* requested counts and page counts are drawn from -1..MaxNum
MaxPageItems == 2     \* a platform page carries 0..MaxPageItems items

\* the platform holds one item more than a caller can ask for
MaxServerItems == MaxNum + 1

\* ------------------------------------------------------ program constants
DefaultNumComments == 20
DefaultNumPosts == 20
FeedApiLimit == 30
UserPageLimit == 30
StatusOK == 200

\* ------------------------------------------------------- python semantics
None == "None"

PyStr(s) == [t |-> "str", v |-> s]
PyInt(n) == [t |-> "int", v |-> n]

\* truth value of a str-or-None value
Truthy(x) == x # None /\ x # ""

Min(a, b) == IF a < b THEN a ELSE b
Max(a, b) == IF a > b THEN a ELSE b

SliceNot(seq, n) == seq

SliceTail(seq, n) ==
    SubSeq(seq, Len(seq) - Min(Max(n, 0), Len(seq)) + 1, Len(seq))

\* seq[:n]
Slice(seq, n) ==
    IF n >= 0 THEN SubSeq(seq, 1, Min(n, Len(seq)))
    ELSE SubSeq(seq, 1, Max(Len(seq) + n, 0))

Range(f) == {f[i] : i \in DOMAIN f}

IndexOf(params, name) == CHOOSE i \in 1..Len(params) : params[i] = name

\* Binding of the arguments of a call to the parameters of the callee:
\* positional arguments fill the parameters in order, keywords by name,
\* defaults fill what is left; a required parameter left unbound is a
\* TypeError.
NoArgs == [x \in {} |-> None]

Bound(params, defaults, pos, kw) ==
    [name \in Range(params) |->
        IF IndexOf(params, name) <= Len(pos) THEN pos[IndexOf(params, name)]
        ELSE IF name \in DOMAIN kw THEN kw[name]
        ELSE defaults[name]]

Bind(params, defaults, pos, kw) ==
    IF \/ Len(pos) > Len(params)
       \/ \E i \in 1..Len(pos) : i <= Len(params) /\ params[i] \in DOMAIN kw
       \/ \E k \in DOMAIN kw : k \notin Range(params)
       \/ \E i \in 1..Len(params) :
             /\ i > Len(pos)
             /\ params[i] \notin DOMAIN kw
             /\ params[i] \notin DOMAIN defaults
    THEN [ok |-> FALSE, args |-> NoArgs]
    ELSE [ok |-> TRUE, args |-> Bound(params, defaults, pos, kw)]

\* ------------------------------------------------------------------- state
VARIABLES
    now,               \* int(time.time() * 1000)
    cache_xs_common,   \* TokenManager.cache_xs_common
    xs_common_cache,   \* TokenManager._xs_common_cache, by cache key
    enable_logging,    \* XHSClient.enable_logging
    pc,                \* where the running operation stands ("idle": none, "done": ended)
    frame,             \* the locals of the running operation
    http,              \* the HTTP exchanges of the last step taken, in order
    sent,              \* HTTP requests of the current operation, counted by kind
    served,            \* items the platform has served in the current operation
    logged,            \* api types written by _log_response in the current operation
    xsc_call,          \* the get_xs_common_token call of the last step taken
    outcome,           \* how the last operation ended
    self_cookies,      \* BaseAPI.cookies of the API clients (empty before construction)
    self_a1,           \* BaseAPI.a1 of the API clients (None before construction)
    built              \* what the constructors have done so far

\* ------------------------------------------------------------ token manager
SidNone == <<"None", 0>>

NoResponse == [status |-> 0, items |-> <<>>, has_more |-> "absent",
               cursor |-> "", search_id |-> SidNone]

NoEntry == [token |-> None, expires_at |-> -1]

DeviceId == "dev1"

\* the device id of another cookie file
OtherDeviceId == "dev2"

\* the a1 arguments get_xs_common_token is called with
A1Values == {None, "", DeviceId, OtherDeviceId}

\* cache_key = f"{a1 or 'default'}:{json.dumps(fingerprint or {})}"
CacheKey(a1) == IF Truthy(a1) THEN a1 ELSE "default"

CacheKeys == {CacheKey(a) : a \in A1Values}

\* the entry is used when caching is on, the key is present and not expired
CacheHitLe(enabled, cache, key, t) ==
    enabled /\ cache[key] # NoEntry /\ cache[key].expires_at >= t

CacheHitNever(enabled, cache, key, t) == FALSE

CacheHit(enabled, cache, key, t) ==
    enabled /\ cache[key] # NoEntry /\ cache[key].expires_at > t

\* request_data of the xs-common request
XscRequestData(a1) == IF Truthy(a1) THEN [a1 |-> a1] ELSE NoArgs

\* answers of the token server to POST /api/v1/tokens/xs-common
XscResponses(a1, t) ==
    {[ok |-> FALSE, x_s_common |-> None, expires_at |-> -1]} \cup
    {[ok |-> TRUE, x_s_common |-> <<"xsc", CacheKey(a1), t + d>>, expires_at |-> t + d] :
        d \in 0..MaxValidity}

XscStoreAlways(enabled, cache, key, resp) ==
    [cache EXCEPT ![key] = [token |-> resp.x_s_common, expires_at |-> resp.expires_at]]

\* the cache after a successful answer
XscStore(enabled, cache, key, resp) ==
    IF enabled
    THEN [cache EXCEPT ![key] = [token |-> resp.x_s_common, expires_at |-> resp.expires_at]]
    ELSE cache

\* get_xs_common_token(a1) at time t with the server answering resp:
\* the value returned or the exception raised, the cache afterwards and the
\* HTTP request made (if any).
get_xs_common_token(enabled, cache, a1, t, resp) ==
    LET key == CacheKey(a1) IN
    IF CacheHit(enabled, cache, key, t)
    THEN [raised |-> FALSE, token |-> cache[key].token, cache |-> cache,
          contacted |-> FALSE, http |-> <<>>]
    ELSE LET req == [dest |-> "token", kind |-> "xs-common", ok |-> resp.ok,
                     endpoint |-> "/api/v1/tokens/xs-common",
                     data |-> XscRequestData(a1),
                     headers |-> NoArgs, cookies |-> NoArgs, resp |-> resp] IN
         IF resp.ok
         THEN [raised |-> FALSE, token |-> resp.x_s_common,
               cache |-> XscStore(enabled, cache, key, resp),
               contacted |-> TRUE, http |-> <<req>>]
         ELSE [raised |-> TRUE, token |-> None, cache |-> cache,
               contacted |-> TRUE, http |-> <<req>>]

XsRequestDataNoA1(endpoint, payload, a1) == [endpoint |-> endpoint, payload |-> payload]

\* request_data of the xs request (timestamp_ms is never passed by the callers)
XsRequestData(endpoint, payload, a1) ==
    IF Truthy(a1) THEN [endpoint |-> endpoint, payload |-> payload, a1 |-> a1]
    ELSE [endpoint |-> endpoint, payload |-> payload]

\* answers of the token server to POST /api/v1/tokens/xs: a failure, or the
\* signature of the request with the timestamp that was signed (both opaque)
XsResponses(endpoint, payload, t) ==
    {[ok |-> FALSE, x_s |-> <<"none">>, x_t |-> <<"none">>],
     [ok |-> TRUE, x_s |-> <<"xs", endpoint, payload>>,
                   x_t |-> <<"xt", endpoint, payload>>]}

\* get_xs_token(endpoint, payload, a1) with the server answering resp
get_xs_token(endpoint, payload, a1, resp) ==
    LET req == [dest |-> "token", kind |-> "xs", ok |-> resp.ok,
                endpoint |-> "/api/v1/tokens/xs",
                data |-> XsRequestData(endpoint, payload, a1),
                headers |-> NoArgs, cookies |-> NoArgs, resp |-> resp] IN
    IF resp.ok
    THEN [raised |-> FALSE, x_s |-> resp.x_s, x_t |-> resp.x_t, http |-> <<req>>]
    ELSE [raised |-> TRUE, x_s |-> <<"none">>, x_t |-> <<"none">>, http |-> <<req>>]

\* ------------------------------------------------------------------ BaseAPI
\* the cookie set of the standard cookie file
StandardCookies == [a1 |-> DeviceId, web_session |-> "session"]

\* the cookie file at cookies_path: absent, a JSON object, or a JSON list of
\* {name, value} objects as browsers export it
NoFile == [exists |-> FALSE, fmt |-> "none", dict |-> NoArgs, list |-> <<>>]

DictFile(d) == [exists |-> TRUE, fmt |-> "dict", dict |-> d, list |-> <<>>]

ListFile(l) == [exists |-> TRUE, fmt |-> "list", dict |-> NoArgs, list |-> l]

SessionCookie == [name |-> "web_session", value |-> "session"]

CookieFiles ==
    {NoFile,
     DictFile(StandardCookies),
     DictFile([a1 |-> OtherDeviceId, web_session |-> "session"]),
     DictFile([a1 |-> "", web_session |-> "session"]),
     DictFile([web_session |-> "session"]),
     ListFile(<<[name |-> "a1", value |-> OtherDeviceId], SessionCookie>>),
     ListFile(<<[name |-> "a1", value |-> ""], [name |-> "a1", value |-> DeviceId]>>),
     ListFile(<<SessionCookie>>)}

\* {cookie['name']: cookie['value'] for cookie in cookies_data}
DictOfList(l) ==
    [n \in {l[i].name : i \in DOMAIN l} |->
        l[CHOOSE i \in DOMAIN l : l[i].name = n /\ \A j \in DOMAIN l : l[j].name = n => j <= i].value]

\* _load_cookies of a file that exists
load_cookies(file) == IF file.fmt = "list" THEN DictOfList(file.list) ELSE file.dict

\* d.get(k, default)
DictGet(d, k, default) == IF k \in DOMAIN d THEN d[k] ELSE default

extract_device_idUnchecked(cks) == [raised |-> FALSE, a1 |-> DictGet(cks, "a1", "")]

\* _extract_device_id: the a1 cookie, ValueError when it is missing or empty
extract_device_id(cks) ==
    LET v == DictGet(cks, "a1", "") IN [raised |-> ~Truthy(v), a1 |-> v]

\* BaseAPI.__init__(token_manager, cookies_path) with the file at cookies_path:
\* the exception raised or the fields of the new client, and whether the
\* file was opened
BaseAPI_init(file) ==
    IF ~file.exists
    THEN [raised |-> TRUE, exc |-> "FileNotFoundError", cookies |-> NoArgs,
          a1 |-> None, opened |-> 0]
    ELSE LET cks == load_cookies(file)
             dev == extract_device_id(cks) IN
         IF dev.raised
         THEN [raised |-> TRUE, exc |-> "ValueError", cookies |-> NoArgs,
               a1 |-> None, opened |-> 1]
         ELSE [raised |-> FALSE, exc |-> None, cookies |-> cks, a1 |-> dev.a1,
               opened |-> 1]

\* self.cookies and self.a1 of the API clients
Cookies == self_cookies

SelfA1 == self_a1

\* str(x)
StrOf(x) == [t |-> "str", v |-> x]

\* _build_headers: the three headers that vary
BuildHeaders(x_s, x_s_common, x_t) ==
    [x_s |-> x_s, x_s_common |-> x_s_common, x_t |-> StrOf(x_t)]

RequestUnsigned(method, endpoint, payload, headers, resp) ==
    [dest |-> "platform", kind |-> method, ok |-> (resp.status = StatusOK),
     endpoint |-> endpoint, data |-> payload,
     headers |-> NoArgs, cookies |-> Cookies, resp |-> resp]

\* the request handed to the HTTP session, with the answer it got
Request(method, endpoint, payload, headers, resp) ==
    [dest |-> "platform", kind |-> method, ok |-> (resp.status = StatusOK),
     endpoint |-> endpoint, data |-> payload,
     headers |-> headers, cookies |-> Cookies, resp |-> resp]

\* no get_xs_common_token call yet
NoCall == [called |-> FALSE, a1 |-> None, raised |-> FALSE, token |-> None]

\* the record of a get_xs_common_token(a1) call that ended as r
XscCall(a1, r) == [called |-> TRUE, a1 |-> a1, raised |-> r.raised, token |-> r.token]

SignedExchangeRetry(method, sign_endpoint, sign_payload, endpoint, payload, enabled, cache, t, xsR, xscR, platR) ==
    LET xs == get_xs_token(sign_endpoint, sign_payload, SelfA1, xsR)
        xsc == get_xs_common_token(enabled, cache, SelfA1, t, xscR)
        req == Request(method, endpoint, payload,
                       BuildHeaders(xs.x_s, xsc.token, xs.x_t), platR) IN
    IF xs.raised
    THEN [raised |-> TRUE, exc |-> "Exception", response |-> NoResponse,
          cache |-> cache, http |-> xs.http \o xs.http, xsc |-> NoCall]
    ELSE IF xsc.raised
    THEN [raised |-> TRUE, exc |-> "Exception", response |-> NoResponse,
          cache |-> xsc.cache, http |-> xs.http \o xsc.http \o xsc.http,
          xsc |-> XscCall(SelfA1, xsc)]
    ELSE [raised |-> platR.status # StatusOK, exc |-> "Exception",
          response |-> IF platR.status = StatusOK THEN platR ELSE NoResponse,
          cache |-> xsc.cache,
          http |-> IF platR.status = StatusOK THEN xs.http \o xsc.http \o <<req>>
                   ELSE xs.http \o xsc.http \o <<req, req>>,
          xsc |-> XscCall(SelfA1, xsc)]

\* The signed exchange shared by _make_request and fetch_comments: the xs
\* token for (sign_endpoint, sign_payload), the xs-common token, then the
\* platform request; an exception of either token call ends it.
SignedExchange(method, sign_endpoint, sign_payload, endpoint, payload, enabled, cache, t, xsR, xscR, platR) ==
    LET xs == get_xs_token(sign_endpoint, sign_payload, SelfA1, xsR)
        xsc == get_xs_common_token(enabled, cache, SelfA1, t, xscR)
        call == XscCall(SelfA1, xsc) IN
    IF xs.raised
    THEN [raised |-> TRUE, exc |-> "Exception", response |-> NoResponse,
          cache |-> cache, http |-> xs.http, xsc |-> NoCall]
    ELSE IF xsc.raised
    THEN [raised |-> TRUE, exc |-> "Exception", response |-> NoResponse,
          cache |-> xsc.cache, http |-> xs.http \o xsc.http,
          xsc |-> call]
    ELSE LET req == Request(method, endpoint, payload,
                            BuildHeaders(xs.x_s, xsc.token, xs.x_t), platR) IN
         [raised |-> platR.status # StatusOK, exc |-> "Exception",
          response |-> IF platR.status = StatusOK THEN platR ELSE NoResponse,
          cache |-> xsc.cache, http |-> xs.http \o xsc.http \o <<req>>,
          xsc |-> call]

make_requestSignsEmpty(endpoint, payload, enabled, cache, t, xsR, xscR, platR) ==
    SignedExchange("POST", endpoint, NoArgs, endpoint, payload,
                   enabled, cache, t, xsR, xscR, platR)

\* BaseAPI._make_request(endpoint, payload)
make_request(endpoint, payload, enabled, cache, t, xsR, xscR, platR) ==
    SignedExchange("POST", endpoint, payload, endpoint, payload,
                   enabled, cache, t, xsR, xscR, platR)

\* ---------------------------------------------------------------- platform
\* the k items the platform serves after srv items of this call
Items(srv, k) == [i \in 1..k |-> srv + i]

PageSizes(srv) == {k \in 0..MaxPageItems : srv + k <= MaxServerItems}

HttpError == [status |-> 500, items |-> <<>>, has_more |-> "absent",
              cursor |-> "", search_id |-> SidNone]

HasMoreValues == {"true", "false", "absent"}

Cursors == {"", "c1", "c2"}

\* answers to POST /api/sns/web/v1/search/notes
SearchResponses(srv) ==
    {HttpError} \cup
    {[status |-> StatusOK, items |-> Items(srv, k), has_more |-> h,
      cursor |-> "", search_id |-> sid] :
        k \in PageSizes(srv), h \in HasMoreValues, sid \in {SidNone, <<"sid", 0>>}}

\* answers of the cursor-paginated endpoints (comments, user_posted, homefeed)
CursorResponses(srv) ==
    {HttpError} \cup
    {[status |-> StatusOK, items |-> Items(srv, k), has_more |-> h,
      cursor |-> c, search_id |-> SidNone] :
        k \in PageSizes(srv), h \in HasMoreValues, c \in Cursors}

\* answers to POST /api/sns/web/v1/feed
FeedResponses(srv) ==
    {HttpError} \cup
    {[status |-> StatusOK, items |-> Items(srv, k), has_more |-> "absent",
      cursor |-> "", search_id |-> SidNone] : k \in PageSizes(srv)}

\* The answers of the environment to one signed exchange, <<xs answer,
\* xs-common answer, platform answer>>: an answer that is never asked for
\* (after a failure, or the xs-common answer on a cache hit) is fixed.
Answers(xsSet, xscSet, platSet, hit) ==
    LET xsOk == {x \in xsSet : x.ok}
        xscOk == {c \in xscSet : c.ok}
        anyXsc == CHOOSE c \in xscSet : ~c.ok
    IN {<<x, anyXsc, HttpError>> : x \in xsSet \ xsOk}
       \cup (IF hit THEN {}
             ELSE {<<x, c, HttpError>> : x \in xsOk, c \in xscSet \ xscOk})
       \cup {<<x, c, p>> : x \in xsOk, c \in (IF hit THEN {anyXsc} ELSE xscOk),
                            p \in platSet}

\* the answers to an exchange of an API client at this moment
ApiAnswers(xsSet, platSet, enabled, cache, t) ==
    Answers(xsSet, XscResponses(SelfA1, t), platSet,
            CacheHit(enabled, cache, CacheKey(SelfA1), t))

HasMoreIgnored(resp) == TRUE

\* response.get("data", {}).get("has_more", False)
HasMore(resp) == resp.has_more = "true"

\* ------------------------------------------------------------ construction
\* the API clients an XHSClient creates
ApiClients == 5

\* nothing constructed: no API client, cookie file never opened, no log directory
NotBuilt == [apis |-> 0, cookie_reads |-> 0, log_dir |-> FALSE]

\* answers to GET /health: a status, or no answer at all
HealthResponses ==
    {[failed |-> FALSE, status |-> StatusOK], [failed |-> FALSE, status |-> 500],
     [failed |-> TRUE, status |-> 0]}

\* TokenManager.health_check: an exception of the request gives False
health_check(resp) == IF resp.failed THEN FALSE ELSE resp.status = StatusOK

HealthRequest(resp) ==
    [dest |-> "token", kind |-> "health", ok |-> health_check(resp),
     endpoint |-> "/health", data |-> NoArgs,
     headers |-> NoArgs, cookies |-> NoArgs, resp |-> resp]

XHSClient_initHealthLast(health, file, logging) ==
    LET api == BaseAPI_init(file)
        done == [apis |-> ApiClients, cookie_reads |-> ApiClients, log_dir |-> logging] IN
    IF api.raised
    THEN [raised |-> TRUE, exc |-> api.exc, cookies |-> NoArgs, a1 |-> None,
          built |-> [NotBuilt EXCEPT !.cookie_reads = api.opened], http |-> <<>>]
    ELSE IF ~health_check(health)
    THEN [raised |-> TRUE, exc |-> "ConnectionError", cookies |-> NoArgs, a1 |-> None,
          built |-> done, http |-> <<HealthRequest(health)>>]
    ELSE [raised |-> FALSE, exc |-> None, cookies |-> api.cookies, a1 |-> api.a1,
          built |-> done, http |-> <<HealthRequest(health)>>]

\* XHSClient.__init__(cookies_path, enable_logging) with the token server
\* answering the health check by health and the file at cookies_path
XHSClient_init(health, file, logging) ==
    LET req == HealthRequest(health)
        api == BaseAPI_init(file) IN
    IF ~health_check(health)
    THEN [raised |-> TRUE, exc |-> "ConnectionError", cookies |-> NoArgs, a1 |-> None,
          built |-> NotBuilt, http |-> <<req>>]
    ELSE IF api.raised
    THEN [raised |-> TRUE, exc |-> api.exc, cookies |-> NoArgs, a1 |-> None,
          built |-> [NotBuilt EXCEPT !.cookie_reads = api.opened], http |-> <<req>>]
    ELSE [raised |-> FALSE, exc |-> None, cookies |-> api.cookies, a1 |-> api.a1,
          built |-> [apis |-> ApiClients, cookie_reads |-> ApiClients, log_dir |-> logging],
          http |-> <<req>>]

\* an API client exists
Constructed == self_a1 # None

\* ------------------------------------------------------- state functions
vars == <<now, cache_xs_common, xs_common_cache, enable_logging, pc, frame,
          http, sent, served, logged, xsc_call, outcome, self_cookies, self_a1, built>>

NoneSent == [xs |-> 0, xsc |-> 0, platform |-> 0]

Count(log, dest, kind) ==
    Cardinality({i \in 1..Len(log) : log[i].dest = dest /\ log[i].kind = kind})

CountPlatform(log) ==
    Cardinality({i \in 1..Len(log) : log[i].dest = "platform"})

\* the counters after the exchanges of log
Sent(before, log) ==
    [xs |-> before.xs + Count(log, "token", "xs"),
     xsc |-> before.xsc + Count(log, "token", "xs-common"),
     platform |-> before.platform + CountPlatform(log)]

NumValues == -1..MaxNum

\* a requested count above the per-request limits of the user and feed APIs
OverLimit == Max(FeedApiLimit, UserPageLimit) + 1

\* the counts asked of UserAPI.get_user_posts and FeedAPI.get_related_posts
LimitedNumValues == NumValues \cup {OverLimit}

IdleFrame == [op |-> "none", caller |-> "none", n |-> 0, all |-> <<>>,
              cursor |-> "", page |-> 0, search_id |-> SidNone, i |-> 0, num |-> 0,
              asked |-> 0,
              note_id |-> None, xsec_token |-> PyStr(""), file |-> NoFile]

Pending == [kind |-> "pending", exc |-> None, list |-> <<>>, keys |-> {}]

Returned(list) == [kind |-> "return", exc |-> None, list |-> list, keys |-> {}]

ReturnedDict(keys) == [kind |-> "return", exc |-> None, list |-> <<>>, keys |-> keys]

Raised(exc) == [kind |-> "raise", exc |-> exc, list |-> <<>>, keys |-> {}]

Init ==
    /\ now = 0
    /\ cache_xs_common \in BOOLEAN
    /\ xs_common_cache = [k \in CacheKeys |-> NoEntry]
    /\ enable_logging \in BOOLEAN
    /\ pc = "idle"
    /\ frame = IdleFrame
    /\ http = <<>>
    /\ sent = NoneSent
    /\ served = 0
    /\ logged = <<>>
    /\ xsc_call = NoCall
    /\ outcome = Pending
    /\ \/ /\ self_cookies = NoArgs
          /\ self_a1 = None
          /\ built = NotBuilt
       \/ /\ self_cookies = StandardCookies
          /\ self_a1 = DeviceId
          /\ built = [apis |-> ApiClients, cookie_reads |-> ApiClients,
                      log_dir |-> enable_logging]

\* the clock advances while the client is idle or inside an operation
Tick ==
    /\ now < MaxTime
    /\ pc # "done"
    /\ now' = now + 1
    /\ UNCHANGED <<cache_xs_common, xs_common_cache, enable_logging, self_cookies, self_a1, built, pc, frame,
                   http, sent, served, logged, xsc_call, outcome>>

\* a call of an operation with the locals f; the methods of the API clients
\* and of the XHSClient need a constructed object
Call(f) ==
    /\ pc = "idle"
    /\ f.caller # "none" => Constructed
    /\ frame' = f

\* the start of an operation: fresh locals, nothing exchanged yet
Begin(f) ==
    /\ Call(f)
    /\ served' = 0
    /\ logged' = <<>>

\* the operation has ended and its caller takes the outcome: the locals go
Finish ==
    /\ pc = "done"
    /\ pc' = "idle"
    /\ frame' = IdleFrame
    /\ http' = <<>>
    /\ sent' = NoneSent
    /\ served' = 0
    /\ logged' = <<>>
    /\ xsc_call' = NoCall
    /\ outcome' = Pending
    /\ UNCHANGED <<now, cache_xs_common, xs_common_cache, enable_logging, self_cookies, self_a1, built>>

\* entering a multi-step operation
Enter(f, at) ==
    /\ Begin(f)
    /\ pc' = at
    /\ http' = <<>>
    /\ sent' = NoneSent
    /\ xsc_call' = NoCall
    /\ outcome' = Pending
    /\ UNCHANGED <<now, cache_xs_common, xs_common_cache, enable_logging, self_cookies, self_a1, built>>

\* a step that exchanges nothing
NoExchange ==
    /\ http' = <<>>
    /\ xsc_call' = NoCall
    /\ UNCHANGED <<sent, xs_common_cache>>

\* the effect of one signed exchange r on the token cache and the histories
Exchanged(r) ==
    /\ http' = r.http
    /\ sent' = Sent(sent, r.http)
    /\ xs_common_cache' = r.cache
    /\ xsc_call' = r.xsc

RaiseKeepsItems(r) ==
    /\ pc' = "done"
    /\ outcome' = [kind |-> "return", exc |-> None, list |-> frame.all, keys |-> {}]

\* a step that ends the operation with the exception of the exchange r
Raise(r) ==
    /\ pc' = "done"
    /\ outcome' = [kind |-> "raise", exc |-> r.exc, list |-> <<>>, keys |-> {}]

\* a direct call of TokenManager.get_xs_common_token(a1)
TokenManager_get_xs_common_token ==
    /\ pc = "idle"
    /\ \E a1 \in A1Values : \E resp \in XscResponses(a1, now) :
         LET r == get_xs_common_token(cache_xs_common, xs_common_cache, a1, now, resp) IN
         /\ Begin([IdleFrame EXCEPT !.op = "get_xs_common_token"])
         /\ pc' = "done"
         /\ http' = r.http
         /\ sent' = Sent(NoneSent, r.http)
         /\ xs_common_cache' = r.cache
         /\ xsc_call' = XscCall(a1, r)
         /\ outcome' = IF r.raised THEN Raised("Exception")
                       ELSE [kind |-> "return", exc |-> None, list |-> <<r.token>>, keys |-> {}]
    /\ UNCHANGED <<now, cache_xs_common, enable_logging, self_cookies, self_a1, built>>

\* the construction of one API client: BaseAPI.__init__(token_manager, cookies_path)
BaseAPI_init_call ==
    /\ pc = "idle"
    /\ ~Constructed
    /\ \E file \in CookieFiles :
         LET r == BaseAPI_init(file) IN
         /\ Begin([IdleFrame EXCEPT !.op = "BaseAPI.__init__", !.file = file])
         /\ pc' = "done"
         /\ self_cookies' = r.cookies
         /\ self_a1' = r.a1
         /\ built' = [apis |-> IF r.raised THEN 0 ELSE 1, cookie_reads |-> r.opened,
                      log_dir |-> FALSE]
         /\ outcome' = IF r.raised THEN Raised(r.exc) ELSE ReturnedDict({"cookies", "a1"})
         /\ NoExchange
    /\ UNCHANGED <<now, cache_xs_common, enable_logging>>

\* the construction of an XHSClient: XHSClient.__init__
XHSClient_init_call ==
    /\ pc = "idle"
    /\ ~Constructed
    /\ \E health \in HealthResponses, file \in CookieFiles :
         LET r == XHSClient_init(health, file, enable_logging) IN
         /\ Begin([IdleFrame EXCEPT !.op = "XHSClient.__init__", !.file = file])
         /\ pc' = "done"
         /\ self_cookies' = r.cookies
         /\ self_a1' = r.a1
         /\ built' = r.built
         /\ outcome' = IF r.raised THEN Raised(r.exc)
                       ELSE ReturnedDict({"token_manager", "enable_logging"})
         /\ http' = r.http
         /\ sent' = Sent(NoneSent, r.http)
         /\ xsc_call' = NoCall
    /\ UNCHANGED <<now, cache_xs_common, xs_common_cache, enable_logging>>

\* ---------------------------------------------------------------- SearchAPI
SearchEndpoint == "/api/sns/web/v1/search/notes"

SearchPayloadFirstPage(keyword, page, search_id, sort) ==
    [keyword |-> keyword, page |-> 1, page_size |-> 20,
     search_id |-> IF search_id = SidNone THEN <<"uuid", page>> ELSE search_id,
     sort |-> sort, note_type |-> 0]

\* search_notes: the payload; a missing search_id is replaced by a fresh uuid
SearchPayload(keyword, page, search_id, sort) ==
    [keyword |-> keyword, page |-> page, page_size |-> 20,
     search_id |-> IF search_id = SidNone THEN <<"uuid", page>> ELSE search_id,
     sort |-> sort, note_type |-> 0]

\* SearchAPI.search(keyword, num_results)
SearchAPI_search_call ==
    \E n \in NumValues :
        Enter([IdleFrame EXCEPT !.op = "search", !.caller = "api", !.n = n, !.page = 1],
              "search")

\* one turn of the while loop of SearchAPI.search
SearchAPI_search_iter ==
    /\ pc = "search"
    /\ Len(frame.all) < frame.n
    /\ LET payload == SearchPayload("kw", frame.page, frame.search_id, "general") IN
       \E ans \in ApiAnswers(XsResponses(SearchEndpoint, payload, now),
                             SearchResponses(served), cache_xs_common, xs_common_cache, now) :
         LET r == make_request(SearchEndpoint, payload, cache_xs_common,
                               xs_common_cache, now, ans[1], ans[2], ans[3])
             resp == r.response
             sid == IF frame.search_id = SidNone THEN resp.search_id ELSE frame.search_id
         IN
         /\ Exchanged(r)
         /\ IF r.raised
            THEN Raise(r) /\ UNCHANGED <<frame, served>>
            ELSE /\ served' = served + Len(resp.items)
                 /\ outcome' = outcome
                 /\ IF resp.items = <<>>
                    THEN /\ frame' = [frame EXCEPT !.search_id = sid]
                         /\ pc' = "search_ret"
                    ELSE /\ frame' = [frame EXCEPT !.search_id = sid,
                                                   !.all = @ \o resp.items,
                                                   !.page = @ + 1]
                         /\ pc' = IF HasMore(resp) THEN "search" ELSE "search_ret"
    /\ UNCHANGED <<now, cache_xs_common, enable_logging, self_cookies, self_a1, built, logged>>

\* the loop of SearchAPI.search is left: return all_results[:num_results]
SearchAPI_search_return ==
    /\ \/ pc = "search_ret"
       \/ pc = "search" /\ ~(Len(frame.all) < frame.n)
    /\ frame.caller = "api"
    /\ pc' = "done"
    /\ outcome' = Returned(Slice(frame.all, frame.n))
    /\ NoExchange
    /\ UNCHANGED <<now, cache_xs_common, enable_logging, self_cookies, self_a1, built, frame, served, logged>>

\* -------------------------------------------------------------- CommentsAPI
CommentsEndpoint == "/api/sns/web/v2/comment/page"

NoteIds == {"n1", "n2"}

\* each note of the platform has its own xsec_token
XsecTokenOf(note_id) == IF note_id = "n1" THEN "tokA" ELSE "tokB"

CommentsParamsFirstPage(note_id, xsec_token, cursor) ==
    [note_id |-> note_id, cursor |-> "", top_comment_id |-> "",
     image_formats |-> "jpg,webp,avif", xsec_token |-> xsec_token]

\* the query parameters of fetch_comments
CommentsParams(note_id, xsec_token, cursor) ==
    [note_id |-> note_id, cursor |-> cursor, top_comment_id |-> "",
     image_formats |-> "jpg,webp,avif", xsec_token |-> xsec_token]

\* endpoint_with_params
WithParams(endpoint, params) == <<endpoint, "?", params>>

\* CommentsAPI.fetch_comments(note_id, xsec_token, cursor): a GET whose xs
\* token is asked for the endpoint with its query string and an empty payload
fetch_comments(note_id, xsec_token, cursor, enabled, cache, t, xsR, xscR, platR) ==
    LET params == CommentsParams(note_id, xsec_token, cursor) IN
    SignedExchange("GET", WithParams(CommentsEndpoint, params), NoArgs,
                   CommentsEndpoint, params, enabled, cache, t, xsR, xscR, platR)

\* a direct call of CommentsAPI.fetch_comments(note_id, xsec_token, cursor)
CommentsAPI_fetch_comments ==
    /\ pc = "idle" /\ Constructed
    /\ \E note \in NoteIds, cursor \in Cursors :
         LET tok == PyStr(XsecTokenOf(note))
             params == CommentsParams(note, tok, cursor) IN
         \E ans \in ApiAnswers(XsResponses(WithParams(CommentsEndpoint, params), NoArgs, now),
                               CursorResponses(0), cache_xs_common, xs_common_cache, now) :
           LET r == fetch_comments(note, tok, cursor, cache_xs_common, xs_common_cache,
                                   now, ans[1], ans[2], ans[3]) IN
           /\ Begin([IdleFrame EXCEPT !.op = "fetch_comments", !.caller = "api",
                                      !.note_id = note, !.xsec_token = tok,
                                      !.cursor = cursor])
           /\ Exchanged(r)
           /\ pc' = "done"
           /\ outcome' = IF r.raised THEN Raised(r.exc) ELSE ReturnedDict({"code", "data"})
    /\ UNCHANGED <<now, cache_xs_common, enable_logging, self_cookies, self_a1, built>>

\* CommentsAPI.get_comments(note_id, xsec_token, num_comments)
CommentsAPI_get_comments_call ==
    \E note \in NoteIds, n \in NumValues :
        Enter([IdleFrame EXCEPT !.op = "get_comments", !.caller = "api", !.n = n,
                                !.note_id = note,
                                !.xsec_token = PyStr(XsecTokenOf(note))],
              "get_comments")

\* one turn of the while loop of CommentsAPI.get_comments
CommentsAPI_get_comments_iter ==
    /\ pc = "get_comments"
    /\ Len(frame.all) < frame.n
    /\ LET params == CommentsParams(frame.note_id, frame.xsec_token, frame.cursor) IN
       \E ans \in ApiAnswers(XsResponses(WithParams(CommentsEndpoint, params), NoArgs, now),
                             CursorResponses(served), cache_xs_common, xs_common_cache, now) :
         LET r == fetch_comments(frame.note_id, frame.xsec_token, frame.cursor,
                                 cache_xs_common, xs_common_cache, now, ans[1], ans[2], ans[3])
             resp == r.response
         IN
         /\ Exchanged(r)
         /\ IF r.raised
            THEN Raise(r) /\ UNCHANGED <<frame, served>>
            ELSE /\ served' = served + Len(resp.items)
                 /\ outcome' = outcome
                 /\ IF resp.items = <<>>
                    THEN /\ frame' = frame
                         /\ pc' = "get_comments_ret"
                    ELSE /\ frame' = [frame EXCEPT !.all = @ \o resp.items,
                                                   !.cursor = resp.cursor]
                         /\ pc' = IF resp.cursor # "" /\ HasMore(resp)
                                  THEN "get_comments" ELSE "get_comments_ret"
    /\ UNCHANGED <<now, cache_xs_common, enable_logging, self_cookies, self_a1, built, logged>>

\* the loop of CommentsAPI.get_comments is left
CommentsLoopLeft ==
    \/ pc = "get_comments_ret"
    \/ pc = "get_comments" /\ ~(Len(frame.all) < frame.n)

\* return all_comments[:num_comments]
CommentsAPI_get_comments_return ==
    /\ CommentsLoopLeft
    /\ frame.caller = "api"
    /\ pc' = "done"
    /\ outcome' = Returned(Slice(frame.all, frame.n))
    /\ NoExchange
    /\ UNCHANGED <<now, cache_xs_common, enable_logging, self_cookies, self_a1, built, frame, served, logged>>

\* ------------------------------------------------------------------ UserAPI
UserPostedEndpoint == "/api/sns/web/v1/user_posted"

UserPageNumUnclamped(num_posts, fetched) == num_posts - fetched

\* num=min(30, num_posts - len(all_posts))
UserPageNum(num_posts, fetched) == Min(UserPageLimit, num_posts - fetched)

\* the payload of fetch_user_posts
UserPostsPayload(user_id, cursor, num) ==
    [user_id |-> user_id, cursor |-> cursor, num |-> num,
     image_formats |-> "jpg,webp,avif"]

\* UserAPI.get_user_posts(user_id, num_posts)
UserAPI_get_user_posts_call ==
    \E n \in LimitedNumValues :
        Enter([IdleFrame EXCEPT !.op = "get_user_posts", !.caller = "api", !.n = n],
              "get_user_posts")

\* one turn of the while loop of UserAPI.get_user_posts
UserAPI_get_user_posts_iter ==
    /\ pc = "get_user_posts"
    /\ Len(frame.all) < frame.n
    /\ LET payload == UserPostsPayload("u1", frame.cursor,
                                       UserPageNum(frame.n, Len(frame.all))) IN
       \E ans \in ApiAnswers(XsResponses(UserPostedEndpoint, payload, now),
                             CursorResponses(served), cache_xs_common, xs_common_cache, now) :
         LET r == make_request(UserPostedEndpoint, payload, cache_xs_common,
                               xs_common_cache, now, ans[1], ans[2], ans[3])
             resp == r.response
         IN
         /\ Exchanged(r)
         /\ IF r.raised
            THEN Raise(r) /\ UNCHANGED <<frame, served>>
            ELSE /\ served' = served + Len(resp.items)
                 /\ outcome' = outcome
                 /\ IF resp.items = <<>>
                    THEN /\ frame' = frame
                         /\ pc' = "get_user_posts_ret"
                    ELSE /\ frame' = [frame EXCEPT !.all = @ \o resp.items,
                                                   !.cursor = resp.cursor]
                         /\ pc' = IF resp.cursor # "" /\ HasMore(resp)
                                  THEN "get_user_posts" ELSE "get_user_posts_ret"
    /\ UNCHANGED <<now, cache_xs_common, enable_logging, self_cookies, self_a1, built, logged>>

\* return all_posts[:num_posts]
UserAPI_get_user_posts_return ==
    /\ \/ pc = "get_user_posts_ret"
       \/ pc = "get_user_posts" /\ ~(Len(frame.all) < frame.n)
    /\ frame.caller = "api"
    /\ pc' = "done"
    /\ outcome' = Returned(Slice(frame.all, frame.n))
    /\ NoExchange
    /\ UNCHANGED <<now, cache_xs_common, enable_logging, self_cookies, self_a1, built, frame, served, logged>>

\* -------------------------------------------------------------- HomefeedAPI
HomefeedEndpoint == "/api/sns/web/v1/homefeed"

\* the num arguments of get_posts: the documented maximum and one more
HomefeedNums == {20, 21}

\* the payload of fetch_homefeed
HomefeedPayload(cursor_score, num, refresh_type) ==
    [cursor_score |-> cursor_score, num |-> num, refresh_type |-> refresh_type,
     note_index |-> 0]

RefreshTypeAlwaysRefresh(cursor) == 1

\* refresh_type=3 if cursor else 1
RefreshType(cursor) == IF cursor # "" THEN 3 ELSE 1

\* HomefeedAPI.get_posts(num, pages)
HomefeedAPI_get_posts_call ==
    \E num \in HomefeedNums, pages \in NumValues :
        Enter([IdleFrame EXCEPT !.op = "get_posts", !.caller = "api", !.n = pages,
                                !.num = num],
              "get_posts")

\* one turn of the for loop of HomefeedAPI.get_posts
HomefeedAPI_get_posts_iter ==
    /\ pc = "get_posts"
    /\ frame.i < frame.n
    /\ LET payload == HomefeedPayload(frame.cursor, frame.num,
                                      RefreshType(frame.cursor)) IN
       \E ans \in ApiAnswers(XsResponses(HomefeedEndpoint, payload, now),
                             CursorResponses(served), cache_xs_common, xs_common_cache, now) :
         LET r == make_request(HomefeedEndpoint, payload, cache_xs_common,
                               xs_common_cache, now, ans[1], ans[2], ans[3])
             resp == r.response
         IN
         /\ Exchanged(r)
         /\ IF r.raised
            THEN Raise(r) /\ UNCHANGED <<frame, served>>
            ELSE /\ served' = served + Len(resp.items)
                 /\ outcome' = outcome
                 /\ IF resp.items = <<>>
                    THEN /\ frame' = [frame EXCEPT !.i = @ + 1]
                         /\ pc' = "get_posts_ret"
                    ELSE /\ frame' = [frame EXCEPT !.all = @ \o resp.items,
                                                   !.cursor = resp.cursor,
                                                   !.i = @ + 1]
                         /\ pc' = IF resp.cursor # ""
                                  THEN "get_posts" ELSE "get_posts_ret"
    /\ UNCHANGED <<now, cache_xs_common, enable_logging, self_cookies, self_a1, built, logged>>

\* return all_posts
HomefeedAPI_get_posts_return ==
    /\ \/ pc = "get_posts_ret"
       \/ pc = "get_posts" /\ ~(frame.i < frame.n)
    /\ pc' = "done"
    /\ outcome' = Returned(frame.all)
    /\ NoExchange
    /\ UNCHANGED <<now, cache_xs_common, enable_logging, self_cookies, self_a1, built, frame, served, logged>>

\* ------------------------------------------------------------------ FeedAPI
FeedEndpoint == "/api/sns/web/v1/feed"

\* the payload of fetch_related_posts
FeedPayload(note_id, xsec_token, num) ==
    [source_note_id |-> note_id, num |-> num, ads_per_flow |-> 0,
     xsec_source |-> "pc_feed", xsec_token |-> xsec_token]

\* FeedAPI.get_related_posts(note_id, xsec_token, num_posts): one request for
\* min(num_posts, 30) posts, and items[:num_posts] of its answer
get_related_posts(note_id, xsec_token, num_posts, enabled, cache, t, xsR, xscR, platR) ==
    LET payload == FeedPayload(note_id, xsec_token, Min(num_posts, FeedApiLimit))
        r == make_request(FeedEndpoint, payload, enabled, cache, t, xsR, xscR, platR)
    IN [r |-> r, list |-> Slice(r.response.items, num_posts)]

\* the xs answers to the request of get_related_posts
FeedXsResponses(note_id, xsec_token, num_posts, t) ==
    XsResponses(FeedEndpoint,
                FeedPayload(note_id, xsec_token, Min(num_posts, FeedApiLimit)), t)

\* a call of FeedAPI.get_related_posts
FeedAPI_get_related_posts ==
    /\ pc = "idle" /\ Constructed
    /\ \E note \in NoteIds, n \in LimitedNumValues :
        \E ans \in ApiAnswers(FeedXsResponses(note, PyStr(XsecTokenOf(note)), n, now),
                              FeedResponses(0), cache_xs_common, xs_common_cache, now) :
          LET g == get_related_posts(note, PyStr(XsecTokenOf(note)), n, cache_xs_common,
                                     xs_common_cache, now, ans[1], ans[2], ans[3]) IN
          /\ Begin([IdleFrame EXCEPT !.op = "get_related_posts", !.caller = "api",
                                     !.n = n, !.note_id = note,
                                     !.xsec_token = PyStr(XsecTokenOf(note))])
          /\ http' = g.r.http
          /\ sent' = Sent(NoneSent, g.r.http)
          /\ xs_common_cache' = g.r.cache
          /\ xsc_call' = g.r.xsc
          /\ pc' = "done"
          /\ outcome' = IF g.r.raised THEN Raised(g.r.exc) ELSE Returned(g.list)
    /\ UNCHANGED <<now, cache_xs_common, enable_logging, self_cookies, self_a1, built>>

\* ---------------------------------------------------------------- XHSClient
\* the signatures of the api methods the client calls
FetchCommentsParams == <<"note_id", "xsec_token", "cursor", "top_comment_id", "image_formats">>

FetchCommentsDefaults ==
    [cursor |-> PyStr(""), top_comment_id |-> PyStr(""), image_formats |-> PyStr("None")]

GetCommentsParams == <<"note_id", "xsec_token", "num_comments">>

GetCommentsDefaults == [num_comments |-> PyInt(DefaultNumComments)]

GetRelatedPostsParams == <<"note_id", "xsec_token", "num_posts">>

GetRelatedPostsDefaults == [num_posts |-> PyInt(DefaultNumPosts)]

\* the arguments of XHSClient.get_comments to fetch_comments
ClientFetchCommentsArgs(note_id, cursor) ==
    Bind(FetchCommentsParams, FetchCommentsDefaults, <<>>,
         [note_id |-> PyStr(note_id), cursor |-> PyStr(cursor)])

\* the arguments of XHSClient.get_note_comments to CommentsAPI.get_comments
ClientGetCommentsArgs(note_id, num) ==
    Bind(GetCommentsParams, GetCommentsDefaults, <<PyStr(note_id), PyInt(num)>>, NoArgs)

\* the arguments of XHSClient.get_related_posts to FeedAPI.get_related_posts
ClientGetRelatedPostsArgs(note_id, num) ==
    Bind(GetRelatedPostsParams, GetRelatedPostsDefaults,
         <<PyStr(note_id), PyInt(num)>>, NoArgs)

\* a step of the client that ends the operation with exception exc before
\* anything is exchanged
ClientRaises(exc) ==
    /\ pc' = "done"
    /\ outcome' = Raised(exc)
    /\ NoExchange
    /\ UNCHANGED <<served, logged>>

\* The body of XHSClient.get_comments(note_id, cursor) once the frame is set:
\* self.logger.info, fetch_comments, _log_response; on success the operation
\* returns a record with the given keys.
ClientGetComments(note_id, cursor, keys) ==
    LET b == ClientFetchCommentsArgs(note_id, cursor) IN
    IF ~enable_logging THEN ClientRaises("AttributeError")
    ELSE IF ~b.ok THEN ClientRaises("TypeError")
    ELSE LET params == CommentsParams(b.args.note_id.v, b.args.xsec_token,
                                      b.args.cursor.v) IN
         \E ans \in ApiAnswers(XsResponses(WithParams(CommentsEndpoint, params), NoArgs, now),
                               CursorResponses(0), cache_xs_common, xs_common_cache, now) :
           LET r == fetch_comments(b.args.note_id.v, b.args.xsec_token, b.args.cursor.v,
                                   cache_xs_common, xs_common_cache, now,
                                   ans[1], ans[2], ans[3]) IN
           /\ Exchanged(r)
           /\ pc' = "done"
           /\ served' = Len(r.response.items)
           /\ IF r.raised
              THEN outcome' = Raised(r.exc) /\ UNCHANGED logged
              ELSE outcome' = ReturnedDict(keys) /\ logged' = <<"comments">>

\* XHSClient.get_comments(note_id, cursor)
XHSClient_get_comments ==
    /\ pc = "idle" /\ Constructed
    /\ \E note \in NoteIds, cursor \in Cursors :
         /\ Call([IdleFrame EXCEPT !.op = "client.get_comments", !.caller = "client",
                                    !.note_id = note, !.cursor = cursor])
         /\ ClientGetComments(note, cursor, {"code", "data"})
    /\ UNCHANGED <<now, cache_xs_common, enable_logging, self_cookies, self_a1, built>>

\* the note items handed to browse_note: with or without id and xsec_token
NoteItems ==
    {[id |-> id, xsec_token |-> tok] :
        id \in NoteIds \cup {None}, tok \in {None, "tokA", "tokB"}}

\* XHSClient.browse_note(note_item)
XHSClient_browse_note ==
    /\ pc = "idle" /\ Constructed
    /\ \E item \in NoteItems :
         /\ item.id # None => item.xsec_token \in {None, XsecTokenOf(item.id)}
         /\ Call([IdleFrame EXCEPT !.op = "client.browse_note", !.caller = "client",
                                    !.note_id = item.id,
                                    !.xsec_token = PyStr(item.xsec_token)])
         /\ IF ~Truthy(item.id) \/ ~Truthy(item.xsec_token)
            THEN /\ pc' = "done"
                 /\ outcome' = ReturnedDict({"error"})
                 /\ NoExchange
                 /\ UNCHANGED <<served, logged>>
            ELSE ClientGetComments(item.id, "", {"note", "comments"})
    /\ UNCHANGED <<now, cache_xs_common, enable_logging, self_cookies, self_a1, built>>

\* XHSClient.get_note_comments(note_id, num): the call of
\* comments_api.get_comments(note_id, num)
XHSClient_get_note_comments_call ==
    /\ pc = "idle"
    /\ \E note \in NoteIds, num \in NumValues :
         LET b == ClientGetCommentsArgs(note, num)
             f == [IdleFrame EXCEPT !.op = "client.get_note_comments",
                                    !.caller = "client", !.note_id = note,
                                    !.asked = num] IN
         IF ~b.ok
         THEN /\ Begin(f)
              /\ ClientRaises("TypeError")
              /\ UNCHANGED <<now, cache_xs_common, enable_logging, self_cookies, self_a1, built>>
         ELSE Enter([f EXCEPT !.note_id = b.args.note_id.v,
                              !.xsec_token = b.args.xsec_token,
                              !.n = b.args.num_comments.v],
                    "get_comments")

\* CommentsAPI.parse_comment: the simplified record of a comment
parse_comment(comment) == [id |-> comment, user_nickname |-> "Anonymous"]

\* XHSClient.get_note_comments: the comments returned by get_comments, parsed
XHSClient_get_note_comments_return ==
    /\ CommentsLoopLeft
    /\ frame.caller = "client"
    /\ pc' = "done"
    /\ outcome' = LET got == Slice(frame.all, frame.n) IN
                  Returned([i \in 1..Len(got) |-> parse_comment(got[i])])
    /\ NoExchange
    /\ UNCHANGED <<now, cache_xs_common, enable_logging, self_cookies, self_a1, built, frame, served, logged>>

\* XHSClient.get_related_posts(note_id, num)
XHSClient_get_related_posts ==
    /\ pc = "idle" /\ Constructed
    /\ \E note \in NoteIds, num \in NumValues :
         LET b == ClientGetRelatedPostsArgs(note, num) IN
         /\ Call([IdleFrame EXCEPT !.op = "client.get_related_posts",
                                    !.caller = "client", !.note_id = note,
                                    !.asked = num])
         /\ IF ~enable_logging THEN ClientRaises("AttributeError")
            ELSE IF ~b.ok THEN ClientRaises("TypeError")
            ELSE \E ans \in ApiAnswers(
                             FeedXsResponses(b.args.note_id.v, b.args.xsec_token,
                                             b.args.num_posts.v, now),
                             FeedResponses(0), cache_xs_common, xs_common_cache, now) :
                   LET g == get_related_posts(b.args.note_id.v, b.args.xsec_token,
                                              b.args.num_posts.v, cache_xs_common,
                                              xs_common_cache, now,
                                              ans[1], ans[2], ans[3]) IN
                   /\ Exchanged(g.r)
                   /\ pc' = "done"
                   /\ served' = Len(g.r.response.items)
                   /\ IF g.r.raised
                      THEN outcome' = Raised(g.r.exc) /\ UNCHANGED logged
                      ELSE outcome' = Returned(g.list) /\ logged' = <<"feed">>
    /\ UNCHANGED <<now, cache_xs_common, enable_logging, self_cookies, self_a1, built>>

\* The XHSClient methods that log, make one request through an API client
\* and write the answer with _log_response: self.logger.info, the request,
\* _log_response(api_type, ...), and the response or its items returned.
ClientFetch(f, endpoint, payload, platSet, api_type, as_list) ==
    /\ Call(f)
    /\ IF ~enable_logging THEN ClientRaises("AttributeError")
       ELSE \E ans \in ApiAnswers(XsResponses(endpoint, payload, now), platSet,
                                  cache_xs_common, xs_common_cache, now) :
              LET r == make_request(endpoint, payload, cache_xs_common, xs_common_cache,
                                    now, ans[1], ans[2], ans[3]) IN
              /\ Exchanged(r)
              /\ pc' = "done"
              /\ served' = Len(r.response.items)
              /\ IF r.raised
                 THEN outcome' = Raised(r.exc) /\ UNCHANGED logged
                 ELSE /\ outcome' = IF as_list THEN Returned(r.response.items)
                                    ELSE ReturnedDict({"code", "data"})
                      /\ logged' = <<api_type>>

\* XHSClient.get_homefeed(num, cursor, refresh_type)
XHSClient_get_homefeed ==
    /\ pc = "idle" /\ Constructed
    /\ \E cursor \in Cursors :
         ClientFetch([IdleFrame EXCEPT !.op = "client.get_homefeed", !.caller = "client",
                                      !.cursor = cursor],
                     HomefeedEndpoint, HomefeedPayload(cursor, 20, 1), CursorResponses(0),
                     "homefeed", FALSE)
    /\ UNCHANGED <<now, cache_xs_common, enable_logging, self_cookies, self_a1, built>>

\* XHSClient.get_homefeed_posts(num): the items of get_homefeed(num=num)
XHSClient_get_homefeed_posts ==
    /\ pc = "idle" /\ Constructed
    /\ ClientFetch([IdleFrame EXCEPT !.op = "client.get_homefeed_posts", !.caller = "client"],
                   HomefeedEndpoint, HomefeedPayload("", 20, 1), CursorResponses(0),
                   "homefeed", TRUE)
    /\ UNCHANGED <<now, cache_xs_common, enable_logging, self_cookies, self_a1, built>>

\* XHSClient.search(keyword, page, page_size, sort): one page of results
XHSClient_search ==
    /\ pc = "idle" /\ Constructed
    /\ \E page \in 1..2 :
         ClientFetch([IdleFrame EXCEPT !.op = "client.search", !.caller = "client",
                                      !.page = page],
                     SearchEndpoint, SearchPayload("kw", page, SidNone, "general"),
                     SearchResponses(0), "search", FALSE)
    /\ UNCHANGED <<now, cache_xs_common, enable_logging, self_cookies, self_a1, built>>

UserInfoEndpoint == "/api/sns/web/v1/user/otherinfo"

\* the payload of fetch_user_info
UserInfoPayload(user_id) == [user_id |-> user_id]

\* XHSClient.get_user_profile(user_id)
XHSClient_get_user_profile ==
    /\ pc = "idle" /\ Constructed
    /\ ClientFetch([IdleFrame EXCEPT !.op = "client.get_user_profile", !.caller = "client"],
                   UserInfoEndpoint, UserInfoPayload("u1"), FeedResponses(MaxServerItems),
                   "user_profile", FALSE)
    /\ UNCHANGED <<now, cache_xs_common, enable_logging, self_cookies, self_a1, built>>

\* XHSClient.search_notes(keyword, num, sort): search_api.search(keyword, num, sort)
XHSClient_search_notes_call ==
    \E num \in NumValues :
        Enter([IdleFrame EXCEPT !.op = "client.search_notes", !.caller = "client",
                                !.n = num, !.asked = num, !.page = 1],
              "search")

\* XHSClient.search_notes returns what SearchAPI.search returns
XHSClient_search_notes_return ==
    /\ \/ pc = "search_ret"
       \/ pc = "search" /\ ~(Len(frame.all) < frame.n)
    /\ frame.caller = "client"
    /\ pc' = "done"
    /\ outcome' = Returned(Slice(frame.all, frame.n))
    /\ NoExchange
    /\ UNCHANGED <<now, cache_xs_common, enable_logging, self_cookies, self_a1, built, frame, served, logged>>

\* XHSClient.get_user_posts(user_id, num): self.logger.info, then
\* user_api.get_user_posts(user_id, num)
XHSClient_get_user_posts_call ==
    /\ pc = "idle"
    /\ \E num \in NumValues :
         LET f == [IdleFrame EXCEPT !.op = "client.get_user_posts", !.caller = "client",
                                    !.n = num, !.asked = num] IN
         IF ~enable_logging
         THEN /\ Begin(f)
              /\ ClientRaises("AttributeError")
              /\ UNCHANGED <<now, cache_xs_common, enable_logging, self_cookies, self_a1, built>>
         ELSE Enter(f, "get_user_posts")

\* XHSClient.get_user_posts: the posts are logged and returned
XHSClient_get_user_posts_return ==
    /\ \/ pc = "get_user_posts_ret"
       \/ pc = "get_user_posts" /\ ~(Len(frame.all) < frame.n)
    /\ frame.caller = "client"
    /\ pc' = "done"
    /\ outcome' = Returned(Slice(frame.all, frame.n))
    /\ logged' = <<"user_posts">>
    /\ NoExchange
    /\ UNCHANGED <<now, cache_xs_common, enable_logging, self_cookies, self_a1, built, frame, served>>

\* ------------------------------------------------------------ specifications
NextToken ==
    \/ Tick
    \/ Finish
    \/ TokenManager_get_xs_common_token

NextApi ==
    \/ Tick
    \/ Finish
    \/ SearchAPI_search_call
    \/ SearchAPI_search_iter
    \/ SearchAPI_search_return
    \/ CommentsAPI_get_comments_call
    \/ CommentsAPI_get_comments_iter
    \/ CommentsAPI_get_comments_return
    \/ UserAPI_get_user_posts_call
    \/ UserAPI_get_user_posts_iter
    \/ UserAPI_get_user_posts_return
    \/ HomefeedAPI_get_posts_call
    \/ HomefeedAPI_get_posts_iter
    \/ HomefeedAPI_get_posts_return
    \/ FeedAPI_get_related_posts

NextClient ==
    \/ Tick
    \/ Finish
    \/ XHSClient_get_comments
    \/ XHSClient_browse_note
    \/ XHSClient_get_note_comments_call
    \/ CommentsAPI_get_comments_iter
    \/ XHSClient_get_note_comments_return
    \/ XHSClient_get_related_posts
    \/ XHSClient_get_homefeed
    \/ XHSClient_get_homefeed_posts
    \/ XHSClient_search
    \/ XHSClient_get_user_profile
    \/ XHSClient_search_notes_call
    \/ SearchAPI_search_iter
    \/ XHSClient_search_notes_return
    \/ XHSClient_get_user_posts_call
    \/ UserAPI_get_user_posts_iter
    \/ XHSClient_get_user_posts_return

\* the construction of the clients from a cookie file, and their first calls
NextConstruct ==
    \/ Tick
    \/ Finish
    \/ BaseAPI_init_call
    \/ XHSClient_init_call
    \/ FeedAPI_get_related_posts
    \/ CommentsAPI_fetch_comments

Next ==
    \/ NextToken
    \/ NextApi
    \/ NextClient
    \/ NextConstruct

\* the whole program
Spec == Init /\ [][Next]_vars

\* the TokenManager used on its own
SpecToken == Init /\ [][NextToken]_vars

\* the API clients of the api package, sharing one TokenManager
InitApi == Init /\ enable_logging /\ Constructed

SpecApi == InitApi /\ [][NextApi]_vars

\* one XHSClient: its TokenManager is built with the default cache_xs_common
InitClient == Init /\ cache_xs_common /\ Constructed

SpecClient == InitClient /\ [][NextClient]_vars

InitConstruct == Init /\ ~Constructed

SpecConstruct == InitConstruct /\ [][NextConstruct]_vars

\* ------------------------------------------------------------------ claims
\* the platform exchanges of a step
Platform(log) == {i \in 1..Len(log) : log[i].dest = "platform"}

\* the exchanges of a step that failed
Failed(log) == {i \in 1..Len(log) : ~log[i].ok}

\* the answer to the platform request of a step that made one
PageOf(log) == log[CHOOSE i \in Platform(log) : TRUE].resp

\* this step of the running operation sends a request for a further page
RequestsFurtherPage ==
    /\ sent.platform >= 1
    /\ sent'.platform > sent.platform

\* C1: in SearchAPI.search, CommentsAPI.get_comments and
\* UserAPI.get_user_posts a further page is requested only when the page
\* before reported has_more = true; after a page with has_more false or
\* missing no request follows in that call.
C1_StopsWhenNoMore ==
    [][(frame.op \in {"search", "get_comments", "get_user_posts"} /\ RequestsFurtherPage)
         => (Platform(http) # {} /\ PageOf(http).has_more = "true")]_vars

\* a page with items and a cursor but without has_more = true, fewer items
\* than asked for, and the loop is left
C1_Witness ==
    /\ frame.op \in {"search", "get_comments", "get_user_posts"}
    /\ pc \in {"search_ret", "get_comments_ret", "get_user_posts_ret"}
    /\ Platform(http) # {}
    /\ PageOf(http).has_more # "true"
    /\ PageOf(http).items # <<>>
    /\ frame.op # "search" => PageOf(http).cursor # ""
    /\ Len(frame.all) < frame.n

\* C2: in HomefeedAPI.get_posts no further page is requested after a page
\* that reported has_more = false, also when fewer than `pages` pages have
\* been fetched.
C2_HomefeedStopsWhenNoMore ==
    [][(frame.op = "get_posts" /\ RequestsFurtherPage)
         => (Platform(http) # {} /\ PageOf(http).has_more # "false")]_vars

\* a get_xs_common_token call was made in this step
XscCalled == now' = now /\ xsc_call'.called

\* the token server was contacted for an xs-common token in this step
XscContacted == \E i \in 1..Len(http') : http'[i].kind = "xs-common"

\* the xs-common answer of this step
XscAnswer == http'[CHOOSE i \in 1..Len(http') : http'[i].kind = "xs-common"].resp

\* C3: get_xs_common_token returns a cached token only when its expires_at
\* is greater than the current time; for an expired entry it contacts the
\* token server and, when that answers, replaces the entry with the new
\* token and expiry and returns the new token; for an unexpired entry with
\* caching enabled it returns the cached token without contacting the server.
C3_CachedTokenNotExpired ==
    [][XscCalled =>
        LET key == CacheKey(xsc_call'.a1)
            e == xs_common_cache[key]
        IN /\ ~XscContacted =>
                /\ e # NoEntry
                /\ e.expires_at > now
                /\ ~xsc_call'.raised
                /\ xsc_call'.token = e.token
                /\ xs_common_cache' = xs_common_cache
           /\ (e # NoEntry /\ e.expires_at <= now) =>
                /\ XscContacted
                /\ XscAnswer.ok =>
                     /\ xs_common_cache'[key] = [token |-> XscAnswer.x_s_common,
                                                 expires_at |-> XscAnswer.expires_at]
                     /\ ~xsc_call'.raised
                     /\ xsc_call'.token = XscAnswer.x_s_common
           /\ (cache_xs_common /\ e # NoEntry /\ e.expires_at > now) => ~XscContacted
      ]_vars

\* a call answered from the cache after the clock has advanced
C3_Witness ==
    /\ xsc_call.called
    /\ ~xsc_call.raised
    /\ http = <<>>
    /\ now > 0
    /\ xs_common_cache[CacheKey(xsc_call.a1)].token = xsc_call.token

\* the answer of the token server to the request of the given kind in a step
TokenAnswer(log, kind) == log[CHOOSE i \in 1..Len(log) : log[i].kind = kind].resp

\* C4: every request sent to the platform, by POST or by GET, carries the
\* x-s and x-t headers just obtained, the x-s-common header and the loaded
\* cookies with a1; when a token request fails in a step, no request is sent
\* to the platform.
C4_RequestsAreSigned ==
    /\ \A i \in Platform(http) :
         /\ DOMAIN http[i].headers = {"x_s", "x_s_common", "x_t"}
         /\ http[i].headers.x_s = TokenAnswer(http, "xs").x_s
         /\ http[i].headers.x_t = StrOf(TokenAnswer(http, "xs").x_t)
         /\ http[i].headers.x_s_common = xsc_call.token
         /\ xsc_call.called /\ ~xsc_call.raised
         /\ http[i].cookies = Cookies
         /\ http[i].cookies.a1 = DeviceId
    /\ (\E i \in Failed(http) : http[i].dest = "token") => Platform(http) = {}

\* a GET sent to the platform with the x-s-common token taken from the cache
C4_Witness ==
    /\ \E i \in Platform(http) : http[i].kind = "GET"
    /\ Len(http) = 2

C6_NoPartialResult ==
    (frame.op \in {"search", "get_comments", "get_user_posts", "get_posts"}
        /\ Failed(http) # {})
    => (pc = "done" /\ outcome.kind = "raise" /\ outcome.list = <<>>)

\* a page fails after earlier pages brought items
C6_Witness ==
    /\ frame.op \in {"search", "get_comments", "get_user_posts", "get_posts"}
    /\ Failed(http) # {}
    /\ frame.all # <<>>
    /\ outcome.kind = "raise"

\* C7: for a requested count N >= 0, search, get_comments, get_user_posts
\* and FeedAPI.get_related_posts return at most N items.
C7_AtMostRequested ==
    (/\ frame.op \in {"search", "get_comments", "get_user_posts", "get_related_posts"}
     /\ outcome.kind = "return"
     /\ frame.n >= 0)
    => Len(outcome.list) <= frame.n

\* the pages brought more items than asked for, and the operation returned
C7_Witness ==
    /\ frame.op \in {"search", "get_comments", "get_user_posts"}
    /\ outcome.kind = "return"
    /\ frame.n >= 0
    /\ Len(frame.all) > frame.n

\* C8: XHSClient.get_related_posts(note_id, num) and
\* XHSClient.get_note_comments(note_id, num) return at most num items.
C8_ClientAtMostNum ==
    (/\ frame.op \in {"client.get_related_posts", "client.get_note_comments"}
     /\ outcome.kind = "return"
     /\ frame.asked >= 0)
    => Len(outcome.list) <= frame.asked

\* C9: every comments or related-posts request of the XHSClient for a note
\* carries that note's own xsec_token.
C9_OwnXsecToken ==
    frame.caller = "client" =>
        \A i \in Platform(http) :
            /\ http[i].data.xsec_token.t = "str"
            /\ http[i].data.xsec_token.v = XsecTokenOf(frame.note_id)

\* C10: browse_note of a note item with id and xsec_token, nothing failing,
\* returns a record with the keys 'note' and 'comments'.
C10_BrowseNoteReturnsRecord ==
    (/\ frame.op = "client.browse_note"
     /\ pc = "done"
     /\ enable_logging
     /\ Truthy(frame.note_id)
     /\ Truthy(frame.xsec_token.v)
     /\ Failed(http) = {})
    => (outcome.kind = "return" /\ {"note", "comments"} \subseteq outcome.keys)

\* C11: the construction of an XHSClient asks the token server for its
\* health first; when the answer is not HTTP 200 or the request fails, it
\* raises ConnectionError and no cookie file has been opened, no API client
\* created and no log directory created.
C11_HealthCheckFirst ==
    (frame.op = "XHSClient.__init__" /\ pc = "done") =>
        /\ Len(http) = 1
        /\ http[1].kind = "health"
        /\ (http[1].resp.failed \/ http[1].resp.status # StatusOK) =>
              /\ outcome = Raised("ConnectionError")
              /\ built = NotBuilt
              /\ self_cookies = NoArgs
              /\ ~Constructed

\* the health request failed while logging was asked for
C11_Witness ==
    /\ frame.op = "XHSClient.__init__"
    /\ pc = "done"
    /\ http[1].resp.failed
    /\ enable_logging
    /\ outcome.kind = "raise"

\* C12: with enable_logging = False the data methods get_homefeed,
\* get_homefeed_posts, search, get_related_posts, get_user_posts and
\* get_user_profile complete normally when no request fails, returning the
\* data, and write no log file.
C12_NoLoggingCompletes ==
    (/\ ~enable_logging
     /\ pc = "done"
     /\ frame.op \in {"client.get_homefeed", "client.get_homefeed_posts", "client.search",
                      "client.get_related_posts", "client.get_user_posts",
                      "client.get_user_profile"}
     /\ Failed(http) = {})
    => (outcome.kind = "return" /\ logged = <<>>)

\* C13: with logging enabled, a data method of the XHSClient that obtained
\* a platform response and returned has written a log record.
C13_ResponsesLogged ==
    (/\ enable_logging
     /\ frame.caller = "client"
     /\ pc = "done"
     /\ outcome.kind = "return"
     /\ sent.platform > 0)
    => logged # <<>>

\* C14: for every platform request, the device id given to the X-S token
\* request, the device id given to the X-S-Common token request and the a1
\* cookie sent with the platform request are the same value.
C14_SameDeviceId ==
    \A i \in Platform(http) :
        LET dev == http[i].cookies.a1 IN
        /\ \E j \in 1..Len(http) : http[j].kind = "xs"
        /\ \A j \in 1..Len(http) :
              http[j].dest = "token" =>
                  ("a1" \in DOMAIN http[j].data /\ http[j].data.a1 = dev)
        /\ xsc_call.called
        /\ xsc_call.a1 = dev

\* a GET of a client built from the other cookie file, both tokens requested
C14_Witness ==
    /\ Len(http) = 3
    /\ http[2].kind = "xs-common"
    /\ http[3].kind = "GET"
    /\ http[3].cookies.a1 = OtherDeviceId

\* the construction of an API client has just ended (inside XHSClient.__init__
\* the API clients are constructed once the health check has passed)
ApiConstructionEnded ==
    /\ pc = "done"
    /\ \/ frame.op = "BaseAPI.__init__"
       \/ frame.op = "XHSClient.__init__" /\ http[1].ok

\* C15: a constructed API client has a non-empty device id equal to the a1
\* entry of its loaded cookies; construction raises FileNotFoundError when
\* the cookie file does not exist and ValueError when the cookies have no
\* a1 or an empty one, and then no token or platform request has been made.
C15_DeviceIdFromCookies ==
    /\ Constructed =>
          /\ Truthy(self_a1)
          /\ "a1" \in DOMAIN self_cookies
          /\ self_a1 = self_cookies.a1
    /\ ApiConstructionEnded =>
          LET file == frame.file
              loaded == IF file.fmt = "list" THEN DictOfList(file.list) ELSE file.dict
          IN /\ ~file.exists => outcome = Raised("FileNotFoundError")
             /\ (file.exists /\ ("a1" \notin DOMAIN loaded \/ loaded.a1 = "")) =>
                    outcome = Raised("ValueError")
             /\ (file.exists /\ "a1" \in DOMAIN loaded /\ loaded.a1 # "") =>
                    (outcome.kind = "return" /\ self_cookies = loaded /\ self_a1 = loaded.a1)
             /\ outcome.kind = "raise" =>
                    /\ ~Constructed
                    /\ sent = NoneSent
                    /\ \A i \in 1..Len(http) : http[i].kind = "health"

\* a cookie file in list format without an a1 cookie: ValueError
C15_Witness ==
    /\ frame.op = "BaseAPI.__init__"
    /\ pc = "done"
    /\ frame.file.fmt = "list"
    /\ outcome = Raised("ValueError")

\* the X-S token requests of a step
XsRequests(log) == {j \in 1..Len(log) : log[j].kind = "xs"}

\* C16: each platform request is preceded, in its own exchange, by exactly
\* one X-S token request made for the endpoint and payload of that request
\* (for a GET: the endpoint with its query string and an empty payload);
\* its x-s and x-t headers are the signature and the timestamp of that one
\* answer; no platform request goes without a token request of its own.
C16_SignaturePerRequest ==
    /\ Cardinality(Platform(http)) <= 1
    /\ sent.platform <= sent.xs
    /\ \A i \in Platform(http) :
          /\ Cardinality(XsRequests(http)) = 1
          /\ \A j \in XsRequests(http) :
                /\ j < i
                /\ http[j].ok
                /\ IF http[i].kind = "GET"
                   THEN /\ http[j].data.endpoint = WithParams(http[i].endpoint, http[i].data)
                        /\ http[j].data.payload = NoArgs
                   ELSE /\ http[j].data.endpoint = http[i].endpoint
                        /\ http[j].data.payload = http[i].data
                /\ http[i].headers.x_s = http[j].resp.x_s
                /\ http[i].headers.x_t = StrOf(http[j].resp.x_t)

\* the second page of comments is requested by a GET whose signature was
\* made for the endpoint with this page's query string
C16_Witness ==
    /\ sent.platform = 2
    /\ sent.xs = 2
    /\ \E i \in Platform(http) :
          /\ http[i].kind = "GET"
          /\ http[i].data.cursor # ""
          /\ \E j \in XsRequests(http) :
                http[j].data.endpoint = WithParams(http[i].endpoint, http[i].data)

\* the operations that page with a cursor
CursorOps == {"get_posts", "get_comments", "get_user_posts"}

\* the platform request of a step that made one
RequestOf(log) == log[CHOOSE i \in Platform(log) : TRUE]

\* the cursor a page request carries: cursor_score for the homefeed, cursor
\* for comments and user posts
RequestCursor(req) ==
    IF req.endpoint = HomefeedEndpoint THEN req.data.cursor_score ELSE req.data.cursor

\* C17: in HomefeedAPI.get_posts, CommentsAPI.get_comments and
\* UserAPI.get_user_posts the first page request carries the empty cursor
\* and every later page request carries the cursor of the response just
\* before it, which is not empty; after a response with an empty or missing
\* cursor no request follows in that call.
C17_CursorChain ==
    [][(frame.op \in CursorOps /\ sent'.platform > sent.platform)
         => /\ Platform(http') # {}
            /\ IF sent.platform = 0
               THEN RequestCursor(RequestOf(http')) = ""
               ELSE /\ Platform(http) # {}
                    /\ PageOf(http).cursor # ""
                    /\ RequestCursor(RequestOf(http')) = PageOf(http).cursor]_vars

\* the second page of a user's posts is requested with the cursor "c2"
C17_Witness ==
    /\ frame.op = "get_user_posts"
    /\ sent.platform = 2
    /\ Platform(http) # {}
    /\ RequestCursor(RequestOf(http)) = "c2"

\* C18: within one SearchAPI.search call the second page request carries the
\* search_id returned in the first response and every later page request
\* carries the search_id of the request before it.
C18_OneSearchSession ==
    [][(frame.op = "search" /\ RequestsFurtherPage)
         => /\ Platform(http) # {}
            /\ Platform(http') # {}
            /\ IF sent.platform = 1
               THEN RequestOf(http').data.search_id = PageOf(http).search_id
               ELSE RequestOf(http').data.search_id = RequestOf(http).data.search_id]_vars

\* C19: within one SearchAPI.search call the pages requested are 1, 2, 3,
\* ... in this order without a gap: the k-th request asks for page k, and a
\* further page is requested only after the response to the page before was
\* received with items and has_more true.
C19_ConsecutivePages ==
    [][(frame.op = "search" /\ sent'.platform > sent.platform)
         => /\ sent'.platform = sent.platform + 1
            /\ Platform(http') # {}
            /\ RequestOf(http').data.page = sent.platform + 1
            /\ sent.platform >= 1
                 => /\ Platform(http) # {}
                    /\ RequestOf(http').data.page = RequestOf(http).data.page + 1
                    /\ PageOf(http).status = StatusOK
                    /\ PageOf(http).items # <<>>
                    /\ PageOf(http).has_more = "true"]_vars

\* page 2 of a search has been requested
C19_Witness ==
    /\ frame.op = "search"
    /\ sent.platform = 2
    /\ Platform(http) # {}
    /\ RequestOf(http).data.page = 2

\* C20: in HomefeedAPI.get_posts the first page request has refresh_type 1
\* and the empty cursor, every later page request has refresh_type 3 and a
\* non-empty cursor; refresh_type 1 never goes with a non-empty cursor.
C20_RefreshThenLoadMore ==
    (frame.op = "get_posts" /\ Platform(http) # {})
      => LET req == RequestOf(http) IN
         /\ sent.platform >= 1
         /\ IF sent.platform = 1
            THEN req.data.refresh_type = 1 /\ req.data.cursor_score = ""
            ELSE req.data.refresh_type = 3 /\ req.data.cursor_score # ""
         /\ req.data.refresh_type = 1 => req.data.cursor_score = ""

\* the second page of the homefeed is requested as "load more"
C20_Witness ==
    /\ frame.op = "get_posts"
    /\ sent.platform = 2
    /\ Platform(http) # {}
    /\ RequestOf(http).data.refresh_type = 3
    /\ RequestOf(http).data.cursor_score # ""

\* the documented maximum of posts per homefeed page
HomefeedMaxNum == 20

\* C21: every homefeed page request of HomefeedAPI.get_posts asks for at
\* most 20 items.
C21_HomefeedPageAtMost20 ==
    (frame.op = "get_posts" /\ Platform(http) # {})
      => RequestOf(http).data.num <= HomefeedMaxNum

\* the token requests of a step all succeeded
TokensOk(log) == \A i \in 1..Len(log) : log[i].dest = "token" => log[i].ok

\* C22: every page request of UserAPI.get_user_posts asks for
\* num = min(30, items still missing), which is at least 1, at most 30 and at
\* most the number of items still missing; FeedAPI.get_related_posts sends
\* one platform request (none when a token request failed), with
\* num = min(num_posts, 30).
C22_PageQuantities ==
    /\ (frame.op = "get_user_posts" /\ Platform(http) # {})
         => LET num == RequestOf(http).data.num
                missing == frame.n - (Len(frame.all) - Len(PageOf(http).items))
            IN /\ num = Min(UserPageLimit, missing)
               /\ 1 <= num
               /\ num <= UserPageLimit
               /\ num <= missing
    /\ frame.op = "get_related_posts"
         => /\ sent.platform <= 1
            /\ Cardinality(Platform(http)) = sent.platform
            /\ (pc = "done" /\ TokensOk(http)) => sent.platform = 1
            /\ Platform(http) # {}
                 => RequestOf(http).data.num = Min(frame.n, FeedApiLimit)

\* more posts of a user are asked for than one request may carry: the first
\* request was cut to the limit, the second asks for what is still missing
C22_Witness ==
    /\ frame.op = "get_user_posts"
    /\ frame.n = OverLimit
    /\ sent.platform = 2
    /\ Platform(http) # {}
    /\ RequestOf(http).data.num < UserPageLimit

\* the xs-common requests of a step
XscRequests(log) == {i \in 1..Len(log) : log[i].kind = "xs-common"}

\* C23: with cache_xs_common = False the local X-S-Common cache has no entry
\* in any state, and every get_xs_common_token call sends a request to the
\* token server.
C23_NoCacheWhenDisabled ==
    ~cache_xs_common
      => /\ \A k \in CacheKeys : xs_common_cache[k] = NoEntry
         /\ xsc_call.called => Cardinality(XscRequests(http)) = 1

\* caching is off and the second exchange of an operation asked the token
\* server for an xs-common token again
C23_Witness ==
    /\ ~cache_xs_common
    /\ sent.xsc = 2
    /\ xsc_call.called
    /\ ~xsc_call.raised
    /\ XscRequests(http) # {}

\* the operations that return the first N items of the pages they fetched
TruncatingOps == {"search", "get_comments", "get_user_posts"}

\* C24: the list returned by SearchAPI.search, CommentsAPI.get_comments and
\* UserAPI.get_user_posts is the first N elements of the item lists of the
\* pages fetched, concatenated in request order (all of them when there are
\* fewer than N): the platform served the items 1, 2, ..., served of the
\* call, and the result is 1, 2, ..., min(N, served).
C24_PrefixOfPages ==
    (frame.op \in TruncatingOps /\ frame.caller = "api" /\ outcome.kind = "return")
      => /\ frame.all = Items(0, served)
         /\ outcome.list = Items(0, Min(Max(frame.n, 0), served))

\* two pages were fetched, with more items than asked for, and the operation
\* returned the first N of them
C24_Witness ==
    /\ frame.op \in TruncatingOps
    /\ frame.caller = "api"
    /\ outcome.kind = "return"
    /\ sent.platform = 2
    /\ frame.n >= 1
    /\ served > frame.n
    /\ Len(outcome.list) = frame.n

\* the X-S-Common token the server returned last for this key is still valid
TokenValid(cache, key, t) == cache[key] # NoEntry /\ cache[key].expires_at > t

\* the cache entry made of a successful answer of the token server
EntryOf(resp) == [token |-> resp.x_s_common, expires_at |-> resp.expires_at]

\* two caches hold the same entries (the expiry times are compared first)
SameCache(c, d) ==
    \A k \in CacheKeys : c[k].expires_at = d[k].expires_at /\ c[k].token = d[k].token

\* C25: the API clients of one XHSClient use one TokenManager and one
\* X-S-Common cache.  In every step of any method of the client: the cache
\* entry of the device id is the token the server returned last (it is
\* replaced by each successful answer and by nothing else), an xs-common
\* request is sent only when that token is missing or no longer valid, so the
\* server gets at most one xs-common request per validity window; and every
\* platform request follows an xs request of its own.
C25_OneTokenCache ==
    [][LET key == CacheKey(SelfA1)
           asked == sent'.xsc > sent.xsc
       IN /\ asked
               => /\ ~TokenValid(xs_common_cache, key, now)
                  /\ Cardinality(XscRequests(http')) = 1
                  /\ \A i \in XscRequests(http') :
                        SameCache(xs_common_cache',
                                  IF http'[i].ok
                                  THEN [xs_common_cache EXCEPT ![key] = EntryOf(http'[i].resp)]
                                  ELSE xs_common_cache)
          /\ ~asked => SameCache(xs_common_cache', xs_common_cache)
          /\ sent'.platform <= sent'.xs
          /\ \A i \in Platform(http') :
                \E j \in XsRequests(http') :
                    /\ j < i
                    /\ http'[j].ok
                    /\ \A k \in (j + 1)..(i - 1) : http'[k].kind = "xs-common"]_vars

\* a search through the client sends its platform request without asking the
\* token server for an xs-common token: the token fetched by an earlier
\* method of the client is still valid
C25_Witness ==
    /\ frame.op = "client.search"
    /\ Platform(http) # {}
    /\ XscRequests(http) = {}
    /\ sent.xsc = 0
    /\ sent.xs = 1
    /\ xsc_call.called
    /\ TokenValid(xs_common_cache, CacheKey(SelfA1), now)

====
